---- MODULE Spec2Model ----
(***************************************************************************)
(* Model of software/python/marker-testing.py: the tone-marker test and    *)
(* tuning harness.                                                         *)
(*                                                                         *)
(* Conventions.                                                            *)
(*  - Python floats are modelled as exact rationals [num, den]; a noise    *)
(*    fraction and a certainty are given in hundredths (50 is 0.5).        *)
(*  - A reply line is an 8-character string over '0' and '1', modelled as  *)
(*    the sequence of its 8 digits; numpy's string order on such lines is  *)
(*    the lexicographic order of the digit sequences.                      *)
(*  - Python indices are 0-based, sequences here are 1-based: slot idx of  *)
(*    a numpy vector is element idx + 1.                                   *)
(*  - The serial device answers a tone while the blocking playback runs,   *)
(*    so that its reply lines are pending when polling starts; a device    *)
(*    marked async may also hold lines back and emit them at any later     *)
(*    time.  A line in the input buffer carries the number of the tone it  *)
(*    answers.                                                             *)
(***************************************************************************)
EXTENDS Integers, Sequences, FiniteSets, TLC

VARIABLES
    \* frequency_mapping's frame
    fm_pc, goertzel_cycles, n_bits, frequency_multiples, starting_multiple,
    fm_result,
    \* test_markers' and collect_response's frames
    bits, noise, freq_map, counter, subsets, idx, p, sound, response,
    results,
    \* tune_parameters' frame
    pc, error, caller, tune_ranges, n_repetitions, cases, nr, rep, frame,
    accuracy,
    \* the environment: results file, serial device, audio output
    store, wire, delays, inbuf, pending, tones, reads, stub, deviated,
    \* history: what was played and answered in the running test_markers
    \* call, the successes seen per combination and subset, the tones whose
    \* reply lines the running trial has read, the number of tune_parameters
    \* calls so far and the rows of the results file when the last one began
    played, replies, hist, heard, calls, before

fmVars == <<fm_pc, goertzel_cycles, n_bits, frequency_multiples,
            starting_multiple, fm_result>>
tmVars == <<bits, noise, freq_map, counter, subsets, idx, p, sound, response,
            results>>
tpVars == <<pc, error, caller, tune_ranges, n_repetitions, cases, nr, rep,
            frame, accuracy>>
envVars == <<store, wire, delays, inbuf, pending, tones, reads, stub,
             deviated>>
histVars == <<played, replies, hist, heard, calls, before>>
vars == <<fmVars, tmVars, tpVars, envVars, histVars>>

---------------------------------------------------------------------------
(* Program constants *)

SAMPLING_FREQUENCY == 44100
RANGE_MIN == 16000
RANGE_MAX == 18000
N_BITS_DEFAULT == 8
LINE_LENGTH == 8
MAX_ACTIVE_BITS == 4

(* Bounds of the model *)

\* goertzel_cycles is drawn from -MaxNegCycles .. MaxCycles
MaxCycles == 150
MaxNegCycles == 2
\* n_bits of a direct frequency_mapping call is drawn from 0 .. MaxNBits
MaxNBits == 8
\* the while loop of frequency_mapping is followed for this many iterations
MaxMultiple == 60

---------------------------------------------------------------------------
(* Rationals *)

Rat(a, b) == [num |-> a, den |-> b]
Sgn(x) == IF x < 0 THEN -1 ELSE 1
RatLT(x, y) == x.num * y.den * Sgn(x.den) * Sgn(y.den)
                   < y.num * x.den * Sgn(x.den) * Sgn(y.den)
RatEq(x, y) == x.num * y.den = y.num * x.den
RatMulInt(k, x) == Rat(k * x.num, x.den)
RatSub(x, y) == Rat(x.num * y.den - y.num * x.den, x.den * y.den)
RatAdd(x, y) ==
    IF x.den = y.den THEN Rat(x.num + y.num, x.den)
    ELSE Rat(x.num * y.den + y.num * x.den, x.den * y.den)
RatDivInt(x, k) == Rat(x.num, x.den * k)
RECURSIVE RatSum(_)
RatSum(v) == IF v = <<>> THEN Rat(0, 1) ELSE RatAdd(Head(v), RatSum(Tail(v)))

---------------------------------------------------------------------------
(* frequency_mapping, statement by statement *)

None == "None"

fm_stops_one_early(k, step) ==
    RatLT(RatMulInt(k + 1, step), Rat(RANGE_MIN, 1))

\* line 39: (starting_multiple * frequency_multiples) < RANGE[0]
fm_below_range(k, step) == RatLT(RatMulInt(k, step), Rat(RANGE_MIN, 1))

fm_wrong_offset(k, step, n) == [b \in 0 .. n - 1 |-> RatMulInt(k + b + 1, step)]

\* line 42: {b: (starting_multiple + b) * frequency_multiples for b in range(n_bits)}
fm_comprehension(k, step, n) == [b \in 0 .. n - 1 |-> RatMulInt(k + b, step)]

\* line 36 with a zero divisor: ZeroDivisionError
fm_raise ==
    /\ fm_pc = "line36"
    /\ goertzel_cycles = 0
    /\ fm_pc' = "raised"
    /\ UNCHANGED <<goertzel_cycles, n_bits, frequency_multiples,
                   starting_multiple, fm_result>>
    /\ UNCHANGED <<tmVars, tpVars, envVars, histVars>>

\* lines 36-37
fm_divide ==
    /\ fm_pc = "line36"
    /\ goertzel_cycles # 0
    /\ frequency_multiples' = Rat(SAMPLING_FREQUENCY, goertzel_cycles)
    /\ starting_multiple' = 0
    /\ fm_pc' = "line39"
    /\ UNCHANGED <<goertzel_cycles, n_bits, fm_result>>
    /\ UNCHANGED <<tmVars, tpVars, envVars, histVars>>

\* lines 39-40: one iteration of the while loop
fm_loop ==
    /\ fm_pc = "line39"
    /\ fm_below_range(starting_multiple, frequency_multiples)
    /\ starting_multiple < MaxMultiple
    /\ starting_multiple' = starting_multiple + 1
    /\ UNCHANGED <<fm_pc, goertzel_cycles, n_bits, frequency_multiples,
                   fm_result>>
    /\ UNCHANGED <<tmVars, tpVars, envVars, histVars>>

\* line 39 false, lines 42-43
fm_return ==
    /\ fm_pc = "line39"
    /\ ~fm_below_range(starting_multiple, frequency_multiples)
    /\ fm_result' = fm_comprehension(starting_multiple, frequency_multiples,
                                     n_bits)
    /\ fm_pc' = "returned"
    /\ UNCHANGED <<goertzel_cycles, n_bits, frequency_multiples,
                   starting_multiple>>
    /\ UNCHANGED <<tmVars, tpVars, envVars, histVars>>

frequency_mapping == fm_raise \/ fm_divide \/ fm_loop \/ fm_return

---------------------------------------------------------------------------
(* Sequences, subsets, reply lines *)

Range(s) == {s[i] : i \in 1 .. Len(s)}

RECURSIVE Pow2(_)
Pow2(n) == IF n <= 0 THEN 1 ELSE 2 * Pow2(n - 1)

RECURSIVE Concat(_)
Concat(ss) == IF ss = <<>> THEN <<>> ELSE Head(ss) \o Concat(Tail(ss))

\* np.zeros(n)
zeros(n) == [i \in 1 .. n |-> 0]

\* itertools.combinations(s, r): the r-length subsequences of s, in the
\* lexicographic order of their positions in s
RECURSIVE combinations(_, _)
combinations(s, r) ==
    IF r = 0 THEN << <<>> >>
    ELSE IF Len(s) < r THEN <<>>
    ELSE LET with == combinations(Tail(s), r - 1)
             without == combinations(Tail(s), r)
         IN [i \in 1 .. Len(with) |-> <<Head(s)>> \o with[i]] \o without

subsets_largest_first(b) ==
    Concat([k \in 1 .. Len(b) |-> combinations(b, Len(b) + 1 - k)])

\* lines 129 and 144:
\* chain.from_iterable(combinations(bits, r) for r in range(1, len(bits) + 1))
enumerate_subsets(b) == Concat([r \in 1 .. Len(b) |-> combinations(b, r)])

\* line 130: ''.join('1' if i in p else '0' for i in range(8))
correct_line(q) ==
    [i \in 1 .. LINE_LENGTH |-> IF (i - 1) \in Range(q) THEN 1 ELSE 0]

\* the order of Python strings, on lines of equal length
RECURSIVE LineLess(_, _)
LineLess(a, b) ==
    IF a = <<>> \/ b = <<>> THEN a = <<>> /\ b # <<>>
    ELSE IF Head(a) # Head(b) THEN Head(a) < Head(b)
    ELSE LineLess(Tail(a), Tail(b))

\* line 124: np.unique(response), the sorted distinct elements
RECURSIVE SortedLines(_)
SortedLines(S) ==
    IF S = {} THEN <<>>
    ELSE LET least == CHOOSE a \in S : \A b \in S \ {a} : LineLess(a, b)
         IN <<least>> \o SortedLines(S \ {least})

np_unique(r) == SortedLines(Range(r))

\* lines 133-134: the test that scores a trial
exact_match(r, correct) == Len(r) = 2 /\ r[Len(r)] = correct

---------------------------------------------------------------------------
(* makesine and create_sound *)

Raised(e) == [kind |-> "raised", error |-> e]

\* lines 55-61; noise in hundredths
makesine(freq, noise_) ==
    IF noise_ # 0 /\ ~(0 <= noise_ /\ noise_ <= 100)
    THEN Raised("AssertionError")
    ELSE [kind |-> "array", freq |-> freq, scale |-> 100 - noise_,
          noise |-> noise_]

\* line 76: [None, 0.3, 0.3, 0.11, 0.07][len(bits)], in hundredths
gain_table == <<None, 30, 30, 11, 7>>

\* lines 75-87 with return_sound = False; the waveform is kept as its terms
create_sound(bits_, freq_mapping, noise_) ==
    IF ~(Len(bits_) <= MAX_ACTIVE_BITS) THEN Raised("AssertionError")
    ELSE IF \E i \in 1 .. Len(bits_) : bits_[i] \notin DOMAIN freq_mapping
    THEN Raised("KeyError")
    ELSE LET gain == gain_table[Len(bits_) + 1]
             sines == [i \in 1 .. Len(bits_) |->
                          [sine |-> makesine(freq_mapping[bits_[i]], 0),
                           gain |-> gain]]
         IN IF Len(bits_) = 0 /\ noise_ = 0
            THEN [kind |-> "int", value |-> 0]
            ELSE [kind |-> "array", sines |-> sines, noise |-> noise_]

---------------------------------------------------------------------------
(* The serial device as a stub: it answers each tone with reply lines.  A  *)
(* reply is described relative to the tone's expected line: "correct" is   *)
(* that line, "zero" is 00000000 and "ones" is 11111111.  The stub gives   *)
(* its usual reply, stub.usual, to every tone, except that it may depart   *)
(* from it once, with a reply of stub.odd, at a tone whose number (from 1) *)
(* is in stub.odd_tones.  "partial" is a line that never gets its newline. *)
(* A stub marked async may hold back the tail of a reply and emit it       *)
(* later; one marked endless goes on emitting lines of its own.            *)

\* the longest reply the stub gives
MaxReplyLines == 3

Tokens == {"zero", "correct", "ones"}
Replies(n) == UNION {[1 .. k -> Tokens] : k \in 0 .. n}

line_of(token, correct) ==
    CASE token = "correct" -> correct
      [] token = "zero" -> [i \in 1 .. LINE_LENGTH |-> 0]
      [] token = "ones" -> [i \in 1 .. LINE_LENGTH |-> 1]
      [] token = "partial" -> <<1>>

lines_of(reply, correct) ==
    [i \in 1 .. Len(reply) |-> line_of(reply[i], correct)]

\* the lines ls as they sit in a buffer, each with the number of the tone
\* it answers
tagged(ls, t) == [i \in 1 .. Len(ls) |-> [line |-> ls[i], tone |-> t]]

\* line 119: device.in_waiting, the number of bytes in the input buffer
in_waiting(buf) == buf # <<>>

any_bytes_ready(buf) == TRUE

\* line 121: readline() on a port opened without a timeout (line 99) returns
\* once the first pending line has its newline
line_ready(buf) == Len(Head(buf).line) = LINE_LENGTH

---------------------------------------------------------------------------
(* test_markers and collect_response *)

n_tests == Pow2(Len(bits)) - 1

\* lines 127-128; flush() waits for pending output and leaves the input
\* buffer as it is
tm_start ==
    /\ pc = "tm_start"
    /\ counter' = zeros(Pow2(Len(bits)) - 1)
    /\ subsets' = enumerate_subsets(bits)
    /\ idx' = 0
    /\ pc' = "trial"
    /\ played' = <<>>
    /\ replies' = <<>>
    /\ UNCHANGED <<bits, noise, freq_map, p, sound, response, results>>
    /\ UNCHANGED <<error, caller, tune_ranges, n_repetitions, cases, nr, rep,
                   frame, accuracy>>
    /\ UNCHANGED <<fmVars, envVars, hist, heard, calls, before>>

\* lines 129-131: create_sound raises
trial_raise ==
    /\ pc = "trial"
    /\ idx < Len(subsets)
    /\ LET q == subsets[idx + 1]
           s == create_sound(q, freq_map, noise)
       IN /\ s.kind = "raised"
          /\ p' = q
          /\ error' = s.error
          /\ pc' = "raised"
    /\ UNCHANGED <<bits, noise, freq_map, counter, subsets, idx, sound,
                   response, results>>
    /\ UNCHANGED <<caller, tune_ranges, n_repetitions, cases, nr, rep, frame,
                   accuracy>>
    /\ UNCHANGED <<fmVars, envVars, histVars>>

\* how many lines of a reply the device emits while the tone plays: all of
\* them, or for an async stub any number of them
emitted_during_playback(reply) ==
    IF ~stub.async THEN {Len(reply)} ELSE 0 .. Len(reply)

\* lines 129-131 and 116-118: the tone is created and played to its end;
\* meanwhile the device has emitted the lines it still held and the first
\* lines, or all, of its reply to this tone
trial_play ==
    /\ pc = "trial"
    /\ idx < Len(subsets)
    /\ LET q == subsets[idx + 1]
           s == create_sound(q, freq_map, noise)
       IN /\ s.kind # "raised"
          /\ p' = q
          /\ sound' = s
          /\ played' = Append(played, q)
          /\ \E reply \in {stub.usual}
                               \cup (IF ~deviated
                                        /\ tones + 1 \in stub.odd_tones
                                     THEN stub.odd ELSE {}) :
                /\ deviated' = (deviated \/ reply # stub.usual)
                /\ replies' = Append(replies, reply)
                /\ \E now \in emitted_during_playback(reply) :
                      LET ls == tagged(lines_of(reply, correct_line(q)),
                                       tones + 1)
                      IN /\ inbuf' = inbuf \o pending \o SubSeq(ls, 1, now)
                         /\ pending' = SubSeq(ls, now + 1, Len(ls))
    /\ tones' = tones + 1
    /\ response' = <<>>
    /\ heard' = {}
    /\ pc' = "poll"
    /\ UNCHANGED <<bits, noise, freq_map, counter, subsets, idx, results>>
    /\ UNCHANGED <<error, caller, tune_ranges, n_repetitions, cases, nr, rep,
                   frame, accuracy>>
    /\ UNCHANGED <<fmVars, store, wire, delays, reads, stub, hist, calls,
                   before>>

\* lines 119-121: bytes are pending, and one line is read once it is whole
poll_read ==
    /\ pc = "poll"
    /\ in_waiting(inbuf)
    /\ line_ready(inbuf)
    /\ response' = Append(response, Head(inbuf).line)
    /\ heard' = heard \cup {Head(inbuf).tone}
    /\ inbuf' = Tail(inbuf)
    /\ reads' = reads + 1
    /\ UNCHANGED <<bits, noise, freq_map, counter, subsets, idx, p, sound,
                   results>>
    /\ UNCHANGED <<tpVars, fmVars, store, wire, delays, pending, tones, stub,
                   deviated>>
    /\ UNCHANGED <<played, replies, hist, calls, before>>

score_twice(c, i) == [c EXCEPT ![i + 1] = @ + 2]

\* line 134: counter[idx] += 1
score(c, i) == [c EXCEPT ![i + 1] = @ + 1]

\* line 119 false, lines 123-124 and 133-134: collect_response returns the
\* distinct lines in sorted order, and the trial is scored
collect_return ==
    /\ pc = "poll"
    /\ ~in_waiting(inbuf)
    /\ LET r == np_unique(response)
           success == exact_match(r, correct_line(p))
       IN /\ response' = r
          /\ counter' = IF success THEN score(counter, idx) ELSE counter
          /\ hist' = IF success /\ caller = "tune_parameters"
                     THEN [hist EXCEPT ![nr + 1][idx + 1] = @ + 1]
                     ELSE hist
    /\ idx' = idx + 1
    /\ pc' = "trial"
    /\ UNCHANGED <<bits, noise, freq_map, subsets, p, sound, results>>
    /\ UNCHANGED <<error, caller, tune_ranges, n_repetitions, cases, nr, rep,
                   frame, accuracy>>
    /\ UNCHANGED <<fmVars, envVars, played, replies, heard, calls, before>>

\* line 129 exhausted, line 136
tm_return ==
    /\ pc = "trial"
    /\ idx = Len(subsets)
    /\ results' = counter
    /\ pc' = IF caller = "tune_parameters" THEN "accumulate" ELSE "done"
    /\ UNCHANGED <<bits, noise, freq_map, counter, subsets, idx, p, sound,
                   response>>
    /\ UNCHANGED <<error, caller, tune_ranges, n_repetitions, cases, nr, rep,
                   frame, accuracy>>
    /\ UNCHANGED <<fmVars, envVars, histVars>>

test_markers ==
    tm_start \/ trial_raise \/ trial_play \/ poll_read \/ collect_return
        \/ tm_return

---------------------------------------------------------------------------
(* tune_parameters *)

\* itertools.product(*pools): the last pool varies fastest
RECURSIVE product(_)
product(pools) ==
    IF pools = <<>> THEN << <<>> >>
    ELSE LET front == product(SubSeq(pools, 1, Len(pools) - 1))
             pool == pools[Len(pools)]
         IN Concat([i \in 1 .. Len(front) |->
                       [j \in 1 .. Len(pool) |-> Append(front[i], pool[j])]])

\* ' '.join / ', '.join of the elements' str()
RECURSIVE join(_, _)
join(strs, sep) ==
    IF strs = <<>> THEN ""
    ELSE IF Len(strs) = 1 THEN Head(strs)
    ELSE Head(strs) \o sep \o join(Tail(strs), sep)

\* line 144: str(t).replace(',', '') of a tuple t of ints: "(0)", "(0 1)"
subset_label(t) ==
    "(" \o join([i \in 1 .. Len(t) |-> ToString(t[i])], " ") \o ")"

\* line 144: the columns of the header row
fixed_columns ==
    <<"accuracy", "noise">>
        \o [i \in 1 .. 8 |-> "gain" \o ToString(i - 1)]
        \o [i \in 1 .. 8 |-> "thresh" \o ToString(i - 1)]

header_row(b) ==
    [kind |-> "header",
     fields |-> fixed_columns
                  \o [i \in 1 .. Len(enumerate_subsets(b)) |->
                         subset_label(enumerate_subsets(b)[i])]]

created_on_every_open(s, b) == [exists |-> TRUE, rows |-> <<header_row(b)>>]

\* lines 142-145: the file is created, with its header row, only if it does
\* not exist
store_after_open(s, b) ==
    IF s.exists THEN s ELSE [exists |-> TRUE, rows |-> <<header_row(b)>>]

RECURSIVE Sum(_)
Sum(v) == IF v = <<>> THEN 0 ELSE Head(v) + Sum(Tail(v))

mean_over_one_more(acc, n) == [i \in 1 .. Len(acc) |-> Rat(acc[i], n + 1)]

\* line 171: accuracy /= n_repetitions; acc holds the success counts summed
\* over the repetitions
mean_accuracy(acc, n) == [i \in 1 .. Len(acc) |-> Rat(acc[i], n)]

\* line 173: np.sum(accuracy) / n_tests, of the divided vector
overall_accuracy(mean, tests) == RatDivInt(RatSum(mean), tests)

row_without_vector(mean, tests, noise_, gains, certainties) ==
    [kind |-> "data",
     fields |-> <<overall_accuracy(mean, tests), Rat(noise_, 100)>>
                   \o [i \in 1 .. Len(gains) |-> Rat(gains[i], 1)]
                   \o [i \in 1 .. Len(certainties) |->
                          Rat(certainties[i], 100)]]

\* line 173: the fields of the row
data_row(mean, tests, noise_, gains, certainties) ==
    [kind |-> "data",
     fields |-> <<overall_accuracy(mean, tests), Rat(noise_, 100)>>
                   \o [i \in 1 .. Len(gains) |-> Rat(gains[i], 1)]
                   \o [i \in 1 .. Len(certainties) |->
                          Rat(certainties[i], 100)]
                   \o mean]

frame_of_swapped(k, case, fmap) ==
    CASE k = 1 -> [kind |-> "frequencies",
                   fields |-> [i \in 1 .. N_BITS_DEFAULT |-> fmap[i - 1]]]
      [] k = 2 -> [kind |-> "scalars",
                   fields |-> <<case[1], case[2], case[3], case[4]>>]
      [] k = 3 -> [kind |-> "certainties", fields |-> case[6]]
      [] k = 4 -> [kind |-> "gains", fields |-> case[5]]

frame_of_default_table(k, case, fmap) ==
    CASE k = 1 -> [kind |-> "frequencies",
                   fields |-> [i \in 1 .. N_BITS_DEFAULT |->
                                  RatMulInt(54 + i,
                                            Rat(SAMPLING_FREQUENCY, 150))]]
      [] k = 2 -> [kind |-> "scalars",
                   fields |-> <<case[1], case[2], case[3], case[4]>>]
      [] k = 3 -> [kind |-> "gains", fields |-> case[5]]
      [] k = 4 -> [kind |-> "certainties", fields |-> case[6]]

\* lines 157-163: the frames written to the device
frame_of(k, case, fmap) ==
    CASE k = 1 -> [kind |-> "frequencies",
                   fields |-> [i \in 1 .. N_BITS_DEFAULT |-> fmap[i - 1]]]
      [] k = 2 -> [kind |-> "scalars",
                   fields |-> <<case[1], case[2], case[3], case[4]>>]
      [] k = 3 -> [kind |-> "gains", fields |-> case[5]]
      [] k = 4 -> [kind |-> "certainties", fields |-> case[6]]

\* lines 139-145
tune_start ==
    /\ pc = "tune_parameters"
    /\ cases' = product(tune_ranges)
    /\ store' = store_after_open(store, bits)
    /\ nr' = 0
    /\ hist' = [c \in 1 .. Len(product(tune_ranges)) |-> zeros(n_tests)]
    /\ pc' = "case"
    /\ UNCHANGED <<error, caller, tune_ranges, n_repetitions, rep, frame,
                   accuracy>>
    /\ UNCHANGED <<fmVars, tmVars, wire, delays, inbuf, pending, tones, reads,
                   stub, deviated>>
    /\ UNCHANGED <<played, replies, heard, calls, before>>

\* lines 147-155: the next case, and the call of frequency_mapping
case_begin ==
    /\ pc = "case"
    /\ nr < Len(cases)
    /\ goertzel_cycles' = cases[nr + 1][4]
    /\ n_bits' = N_BITS_DEFAULT
    /\ fm_pc' = "line36"
    /\ pc' = "frequency_mapping"
    /\ UNCHANGED <<frequency_multiples, starting_multiple, fm_result>>
    /\ UNCHANGED <<error, caller, tune_ranges, n_repetitions, cases, nr, rep,
                   frame, accuracy>>
    /\ UNCHANGED <<tmVars, envVars, histVars>>

\* line 155: frequency_mapping raised, and nothing catches it
fm_propagate ==
    /\ pc = "frequency_mapping"
    /\ fm_pc = "raised"
    /\ error' = "ZeroDivisionError"
    /\ pc' = "raised"
    /\ UNCHANGED <<caller, tune_ranges, n_repetitions, cases, nr, rep, frame,
                   accuracy>>
    /\ UNCHANGED <<fmVars, tmVars, envVars, histVars>>

\* line 155: freq_map = frequency_mapping(goertzel)
fm_assign ==
    /\ pc = "frequency_mapping"
    /\ fm_pc = "returned"
    /\ freq_map' = fm_result
    /\ frame' = 0
    /\ pc' = "frames"
    /\ UNCHANGED <<bits, noise, counter, subsets, idx, p, sound, response,
                   results>>
    /\ UNCHANGED <<error, caller, tune_ranges, n_repetitions, cases, nr, rep,
                   accuracy>>
    /\ UNCHANGED <<fmVars, envVars, histVars>>

\* lines 157-164: one frame is written, then sleep(.1); after the fourth,
\* line 166
write_frame ==
    /\ pc = "frames"
    /\ frame < 4
    /\ wire' = Append(wire, frame_of(frame + 1, cases[nr + 1], freq_map))
    /\ delays' = delays + 1
    /\ frame' = frame + 1
    /\ IF frame + 1 = 4
       THEN /\ accuracy' = zeros(n_tests)
            /\ rep' = 0
            /\ pc' = "repetition"
       ELSE UNCHANGED <<accuracy, rep, pc>>
    /\ UNCHANGED <<error, caller, tune_ranges, n_repetitions, cases, nr>>
    /\ UNCHANGED <<fmVars, tmVars, store, inbuf, pending, tones, reads, stub,
                   deviated, histVars>>

\* lines 167-168: the call of test_markers
repetition_begin ==
    /\ pc = "repetition"
    /\ rep < n_repetitions
    /\ pc' = "tm_start"
    /\ UNCHANGED <<error, caller, tune_ranges, n_repetitions, cases, nr, rep,
                   frame, accuracy>>
    /\ UNCHANGED <<fmVars, tmVars, envVars, histVars>>

\* line 169: accuracy += results
accumulate ==
    /\ pc = "accumulate"
    /\ accuracy' = [i \in 1 .. Len(accuracy) |-> accuracy[i] + results[i]]
    /\ rep' = rep + 1
    /\ pc' = "repetition"
    /\ UNCHANGED <<error, caller, tune_ranges, n_repetitions, cases, nr,
                   frame>>
    /\ UNCHANGED <<fmVars, tmVars, envVars, histVars>>

\* lines 171-173: the case's record is appended
write_record ==
    /\ pc = "repetition"
    /\ rep = n_repetitions
    /\ accuracy' = mean_accuracy(accuracy, n_repetitions)
    /\ store' = [store EXCEPT
                    !.rows = Append(@, data_row(
                                 mean_accuracy(accuracy, n_repetitions),
                                 n_tests, noise, cases[nr + 1][5],
                                 cases[nr + 1][6]))]
    /\ nr' = nr + 1
    /\ pc' = "case"
    /\ UNCHANGED <<error, caller, tune_ranges, n_repetitions, cases, rep,
                   frame>>
    /\ UNCHANGED <<fmVars, tmVars, wire, delays, inbuf, pending, tones, reads,
                   stub, deviated, histVars>>

\* line 147 exhausted: tune_parameters returns
tune_return ==
    /\ pc = "case"
    /\ nr = Len(cases)
    /\ pc' = "done"
    /\ UNCHANGED <<error, caller, tune_ranges, n_repetitions, cases, nr, rep,
                   frame, accuracy>>
    /\ UNCHANGED <<fmVars, tmVars, envVars, histVars>>

tune_parameters ==
    tune_start \/ case_begin \/ fm_propagate \/ fm_assign \/ write_frame
        \/ repetition_begin \/ accumulate \/ write_record \/ tune_return

---------------------------------------------------------------------------
(* Inputs and initial states *)

\* the bit indices of a universe handed to test_markers directly are drawn
\* from 0 .. MaxBitIndex
MaxBitIndex == 3
\* the universe of a sweep is range(n), n in 1 .. MaxBits
MaxBits == 5
\* a sweep repeats test_markers 1 .. MaxRepetitions times
MaxRepetitions == 2
\* a calibration dimension holds 1 .. MaxPool candidate values
MaxPool == 2
\* the stub device of a sweep may depart from its usual reply at one of its
\* first MaxOddTone tones
MaxOddTone == 2

\* the strictly increasing sequences over a set S of integers
RECURSIVE Ascending(_)
Ascending(T) ==
    IF T = {} THEN <<>>
    ELSE LET least == CHOOSE a \in T : \A b \in T : a <= b
         IN <<least>> \o Ascending(T \ {least})

Increasing(S) == {Ascending(T) : T \in SUBSET S}

Universes == Increasing(0 .. MaxBitIndex) \ {<<>>}

\* the universe of a sweep: range(n), or two indices that leave out bit 0
SweepUniverses ==
    {[i \in 1 .. n |-> i - 1] : n \in 1 .. MaxBits}
        \cup {u \in Universes : Len(u) = 2 /\ u[1] > 0}

\* noise fractions, in hundredths: inside and outside [0, 1]
NoiseValues == {-50, 0, 50, 100, 150}

\* lines 185-190: the candidate values of __main__, and a second certainty
MIXER_MARKER == Rat(24, 10)
HIGH == Rat(8, 1)
BAND == Rat(8, 1)
GAINS_A == <<4, 4, 6, 6, 6, 6, 6, 6>>
GAINS_B == <<6, 6, 6, 6, 6, 6, 6, 6>>
CERTAINTIES_A == <<50, 50, 50, 50, 50, 50, 50, 50>>

\* the tuples of 1 .. MaxPool distinct candidates, in any order
Pools(S) ==
    {t \in UNION {[1 .. k -> S] : k \in 1 .. MaxPool} :
        \A i, j \in 1 .. Len(t) : t[i] = t[j] => i = j}

\* detector cycle counts of a sweep: negative, zero and positive
SweepCycles == {-1, 0, 2, 3}

TuneRanges ==
    {<< <<MIXER_MARKER>>, <<HIGH>>, <<BAND>>, g, <<GAINS_A>> \o t,
        <<CERTAINTIES_A>> >> :
        g \in Pools(SweepCycles), t \in {<<>>, <<GAINS_B>>}}

\* a frequency map handed to create_sound or test_markers directly
InputMaps ==
    {fm_comprehension(55, Rat(SAMPLING_FREQUENCY, 150), n) : n \in {2, 8}}

\* the stub device of a sweep: its usual reply scores, its odd one does not
SweepUsual == <<"zero", "correct">>
SweepOdd == {<<"correct">>}

NoDevice ==
    [usual |-> <<>>, odd |-> {}, odd_tones |-> {}, async |-> FALSE,
     endless |-> FALSE]

AbsentStore == [exists |-> FALSE, rows |-> <<>>]

fmIdle ==
    /\ fm_pc = "idle"
    /\ goertzel_cycles = 0
    /\ n_bits = 0
    /\ frequency_multiples = Rat(0, 1)
    /\ starting_multiple = 0
    /\ fm_result = <<>>

tmIdle ==
    /\ counter = <<>>
    /\ subsets = <<>>
    /\ idx = 0
    /\ sound = None
    /\ response = <<>>
    /\ results = <<>>

tpIdle ==
    /\ error = None
    /\ tune_ranges = <<>>
    /\ n_repetitions = 0
    /\ cases = <<>>
    /\ nr = 0
    /\ rep = 0
    /\ frame = 0
    /\ accuracy = <<>>

envIdle ==
    /\ store = AbsentStore
    /\ wire = <<>>
    /\ delays = 0
    /\ inbuf = <<>>
    /\ pending = <<>>
    /\ tones = 0
    /\ reads = 0
    /\ deviated = FALSE

histIdle ==
    /\ played = <<>>
    /\ replies = <<>>
    /\ hist = <<>>
    /\ heard = {}
    /\ calls = 1
    /\ before = <<>>

\* a call frequency_mapping(goertzel_cycles, n_bits)
InitFM ==
    /\ pc = "frequency_mapping"
    /\ caller = "frequency_mapping"
    /\ fm_pc = "line36"
    /\ goertzel_cycles \in (0 - MaxNegCycles) .. MaxCycles
    /\ n_bits \in 0 .. MaxNBits
    /\ frequency_multiples = Rat(0, 1)
    /\ starting_multiple = 0
    /\ fm_result = <<>>
    /\ bits = <<>> /\ noise = 0 /\ freq_map = <<>> /\ p = <<>>
    /\ stub = NoDevice
    /\ tmIdle /\ tpIdle /\ envIdle /\ histIdle

NextFM == frequency_mapping

SpecFM == InitFM /\ [][NextFM]_vars

\* a call create_sound(p, freq_map, noise)
InitCS ==
    /\ pc = "create_sound"
    /\ caller = "create_sound"
    /\ p \in Increasing(0 .. N_BITS_DEFAULT - 1)
    /\ Len(p) <= MAX_ACTIVE_BITS + 1
    /\ noise \in NoiseValues
    /\ freq_map \in InputMaps
    /\ bits = <<>>
    /\ stub = NoDevice
    /\ fmIdle /\ tmIdle /\ tpIdle /\ envIdle /\ histIdle

\* lines 75-76 or 79: create_sound raises
cs_raise ==
    /\ pc = "create_sound"
    /\ create_sound(p, freq_map, noise).kind = "raised"
    /\ error' = create_sound(p, freq_map, noise).error
    /\ pc' = "raised"
    /\ UNCHANGED <<caller, tune_ranges, n_repetitions, cases, nr, rep, frame,
                   accuracy>>
    /\ UNCHANGED <<fmVars, tmVars, envVars, histVars>>

\* line 87: create_sound returns
cs_return ==
    /\ pc = "create_sound"
    /\ create_sound(p, freq_map, noise).kind # "raised"
    /\ sound' = create_sound(p, freq_map, noise)
    /\ pc' = "done"
    /\ UNCHANGED <<bits, noise, freq_map, counter, subsets, idx, p, response,
                   results>>
    /\ UNCHANGED <<error, caller, tune_ranges, n_repetitions, cases, nr, rep,
                   frame, accuracy>>
    /\ UNCHANGED <<fmVars, envVars, histVars>>

NextCS == cs_raise \/ cs_return

SpecCS == InitCS /\ [][NextCS]_vars

\* a call test_markers(bits, freq_map, device, noise) against a stub device
InitTM ==
    /\ pc = "tm_start"
    /\ caller = "test_markers"
    /\ bits \in Universes
    /\ noise \in {0, 150}
    /\ freq_map \in InputMaps
    /\ stub \in {[usual |-> u, odd |-> Replies(MaxReplyLines),
                     odd_tones |-> 1 .. Pow2(Len(bits)), async |-> FALSE,
                     endless |-> FALSE] : u \in Replies(2)}
    /\ p = <<>>
    /\ fmIdle /\ tmIdle /\ tpIdle /\ envIdle /\ histIdle

NextTM == test_markers

SpecTM == InitTM /\ [][NextTM]_vars

\* a call tune_parameters(bits, tune_ranges, n_repetitions, device, noise)
\* against a stub device, the results file absent; a sweep with noise, or
\* over four bits or more, is followed for one repetition
Init ==
    /\ pc = "tune_parameters"
    /\ caller = "tune_parameters"
    /\ bits \in SweepUniverses
    /\ noise \in {0, 150}
    /\ freq_map = <<>>
    /\ stub = [usual |-> SweepUsual, odd |-> SweepOdd,
                odd_tones |-> 1 .. MaxOddTone, async |-> FALSE,
                endless |-> FALSE]
    /\ p = <<>>
    /\ tune_ranges \in TuneRanges
    /\ n_repetitions \in 1 .. MaxRepetitions
    /\ noise # 0 \/ Len(bits) >= MAX_ACTIVE_BITS => n_repetitions = 1
    /\ error = None /\ cases = <<>> /\ nr = 0 /\ rep = 0 /\ frame = 0
    /\ accuracy = <<>>
    /\ fmIdle /\ tmIdle /\ envIdle /\ histIdle

Next ==
    \/ tune_parameters
    \/ frequency_mapping
    \/ test_markers

Spec == Init /\ [][Next]_vars

---------------------------------------------------------------------------
(* Sweeps in their environment.  Under SpecEnv the device may emit         *)
(* asynchronously and the sweep may be aborted; under SpecCalls a sweep    *)
(* may be aborted and tune_parameters may be called again on the same      *)
(* results file and device.                                                *)

\* tune_parameters is called up to MaxCalls times
MaxCalls == 2
\* an endless device emits while fewer than MaxBacklog of its lines wait in
\* the input buffer, and until MaxReads lines have been read
MaxBacklog == 1
MaxReads == 6

\* the device emits the next line it held back
device_emit ==
    /\ pending # <<>>
    /\ inbuf' = Append(inbuf, Head(pending))
    /\ pending' = Tail(pending)
    /\ UNCHANGED <<store, wire, delays, tones, reads, stub, deviated>>
    /\ UNCHANGED <<fmVars, tmVars, tpVars, histVars>>

\* an endless device emits one more line, in reply to no tone
device_babble ==
    /\ stub.endless
    /\ Len(inbuf) < MaxBacklog
    /\ reads < MaxReads
    /\ inbuf' = Append(inbuf, [line |-> line_of("zero", <<>>), tone |-> 0])
    /\ UNCHANGED <<store, wire, delays, pending, tones, reads, stub, deviated>>
    /\ UNCHANGED <<fmVars, tmVars, tpVars, histVars>>

\* lines 147-173: the sweep is aborted where it stands, by a crash or by an
\* error of the serial port
abort ==
    /\ caller = "tune_parameters"
    /\ pc \in {"case", "frequency_mapping", "frames", "repetition",
               "tm_start", "trial", "poll", "accumulate"}
    /\ pc' = "aborted"
    /\ error' = "Aborted"
    /\ fm_pc' = "idle"
    /\ UNCHANGED <<goertzel_cycles, n_bits, frequency_multiples,
                   starting_multiple, fm_result>>
    /\ UNCHANGED <<caller, tune_ranges, n_repetitions, cases, nr, rep, frame,
                   accuracy>>
    /\ UNCHANGED <<tmVars, envVars, histVars>>

\* line 197: tune_parameters is called again, with the same arguments, on
\* the results file and the device as the last call left them
tune_again ==
    /\ caller = "tune_parameters"
    /\ pc \in {"done", "raised", "aborted"}
    /\ calls < MaxCalls
    /\ pc' = "tune_parameters"
    /\ error' = None
    /\ fm_pc' = "idle"
    /\ calls' = calls + 1
    /\ before' = store.rows
    /\ UNCHANGED <<goertzel_cycles, n_bits, frequency_multiples,
                   starting_multiple, fm_result>>
    /\ UNCHANGED <<caller, tune_ranges, n_repetitions, cases, nr, rep, frame,
                   accuracy>>
    /\ UNCHANGED <<played, replies, hist, heard>>
    /\ UNCHANGED <<tmVars, envVars>>

\* the devices of these sweeps: one that answers each tone in time, one
\* that may answer late, one that stalls in the second line of each reply,
\* and one that never stops emitting
EnvStub(u, a, e) ==
    [usual |-> u, odd |-> {}, odd_tones |-> {}, async |-> a, endless |-> e]

EnvStubs ==
    {EnvStub(SweepUsual, FALSE, FALSE), EnvStub(SweepUsual, TRUE, FALSE),
     EnvStub(SweepUsual, FALSE, TRUE),
     EnvStub(<<"zero", "partial">>, FALSE, FALSE)}

EnvCycles == {<<2>>, <<2, 0>>, <<3, 2>>}

EnvRanges ==
    {<< <<MIXER_MARKER>>, <<HIGH>>, <<BAND>>, g, <<GAINS_A>>,
        <<CERTAINTIES_A>> >> : g \in EnvCycles}

InitEnv ==
    /\ pc = "tune_parameters"
    /\ caller = "tune_parameters"
    /\ bits \in {<<0>>, <<0, 1>>, <<0, 1, 2, 3, 4>>}
    /\ noise = 0
    /\ freq_map = <<>>
    /\ stub \in EnvStubs
    /\ Len(bits) > MAX_ACTIVE_BITS => ~stub.async /\ ~stub.endless
    /\ p = <<>>
    /\ tune_ranges \in EnvRanges
    /\ n_repetitions \in 1 .. 2
    /\ error = None /\ cases = <<>> /\ nr = 0 /\ rep = 0 /\ frame = 0
    /\ accuracy = <<>>
    /\ fmIdle /\ tmIdle /\ envIdle /\ histIdle

NextEnv ==
    \/ tune_parameters
    \/ frequency_mapping
    \/ test_markers
    \/ device_emit
    \/ device_babble
    \/ abort

SpecEnv == InitEnv /\ [][NextEnv]_vars

\* a universe whose only index has no frequency in the map of eight bits
UNMAPPED_BIT == <<N_BITS_DEFAULT>>

InitCalls ==
    /\ pc = "tune_parameters"
    /\ caller = "tune_parameters"
    /\ bits \in {<<0>>, <<0, 1>>, UNMAPPED_BIT}
    /\ noise = 0
    /\ freq_map = <<>>
    /\ stub = [usual |-> SweepUsual, odd |-> SweepOdd, odd_tones |-> {1},
                async |-> FALSE, endless |-> FALSE]
    /\ p = <<>>
    /\ tune_ranges \in EnvRanges
    /\ n_repetitions \in 1 .. 2
    /\ Len(bits) > 1 => n_repetitions = 1
    /\ error = None /\ cases = <<>> /\ nr = 0 /\ rep = 0 /\ frame = 0
    /\ accuracy = <<>>
    /\ fmIdle /\ tmIdle /\ envIdle /\ histIdle

NextCalls ==
    \/ tune_parameters
    \/ frequency_mapping
    \/ test_markers
    \/ abort
    \/ tune_again

SpecCalls == InitCalls /\ [][NextCalls]_vars

---------------------------------------------------------------------------
(* Properties of frequency_mapping, under SpecFM *)

\* C6: for goertzel_cycles > 0, frequency_mapping returns the map
\* b -> (k + b) * step over 0 .. n_bits - 1, with step = sampling rate /
\* goertzel_cycles and k the smallest non-negative integer such that
\* k * step >= range_min; the frequencies increase strictly by step, the
\* first is at least range_min and one step below it is under range_min.
\* The loop reaches that k within the iterations the model follows.
C6_FrequencyMap ==
    goertzel_cycles > 0 =>
        LET g == goertzel_cycles
            k == starting_multiple
            step == Rat(SAMPLING_FREQUENCY, g)
            low == Rat(RANGE_MIN, 1)
        IN /\ fm_pc = "line39" /\ k * SAMPLING_FREQUENCY < RANGE_MIN * g
                => k < MaxMultiple
           /\ fm_pc = "returned" =>
                /\ DOMAIN fm_result = 0 .. n_bits - 1
                /\ k >= 0
                /\ k * SAMPLING_FREQUENCY >= RANGE_MIN * g
                /\ \A j \in 0 .. k - 1 :
                       j * SAMPLING_FREQUENCY < RANGE_MIN * g
                /\ \A b \in 0 .. n_bits - 1 :
                       RatEq(fm_result[b],
                             Rat((k + b) * SAMPLING_FREQUENCY, g))
                /\ \A b \in 0 .. n_bits - 2 :
                       /\ RatLT(fm_result[b], fm_result[b + 1])
                       /\ RatEq(RatSub(fm_result[b + 1], fm_result[b]), step)
                /\ n_bits >= 1 =>
                       /\ ~RatLT(fm_result[0], low)
                       /\ RatLT(RatSub(fm_result[0], step), low)

\* frequency_mapping(150) has returned the eight frequencies from k = 55
C6_Witness ==
    /\ fm_pc = "returned"
    /\ goertzel_cycles = 150
    /\ n_bits = 8
    /\ starting_multiple = 55
    /\ fm_result[0] = Rat(55 * SAMPLING_FREQUENCY, 150)

\* C7: for goertzel_cycles <= 0, zero or negative, frequency_mapping ends
\* with an error as soon as it has run: it never gets past line 36
C7_NonPositiveCyclesRaise ==
    goertzel_cycles <= 0 /\ fm_pc # "line36" => fm_pc = "raised"

\* with a negative goertzel_cycles the condition of the while loop holds at
\* every multiple: the loop is never left
NegativeCyclesNeverLeaveLoop ==
    goertzel_cycles < 0 /\ fm_pc # "line36" =>
        /\ fm_pc = "line39"
        /\ fm_below_range(starting_multiple, frequency_multiples)

\* C13: for goertzel_cycles = 150 and 8 bits, with sampling rate 44100 and
\* range_min 16000, frequency_mapping yields step 294, multiplier 55,
\* 16170 for bit 0 and 18228 for bit 7, which is above the upper bound
\* 18000 of the range; it checks no upper bound and returns the map without
\* raising
C13_UncheckedUpperBound ==
    goertzel_cycles = 150 /\ n_bits = 8 /\ fm_pc # "line36" =>
        /\ fm_pc # "raised"
        /\ RatEq(frequency_multiples, Rat(294, 1))
        /\ fm_pc = "line39" => starting_multiple <= 55
        /\ fm_pc = "returned" =>
               /\ starting_multiple = 55
               /\ DOMAIN fm_result = 0 .. 7
               /\ RatEq(fm_result[0], Rat(16170, 1))
               /\ RatEq(fm_result[7], Rat(18228, 1))
               /\ RatLT(Rat(RANGE_MAX, 1), fm_result[7])

\* frequency_mapping(150) has returned a map whose bit 7 lies above the
\* range
C13_Witness ==
    /\ fm_pc = "returned"
    /\ goertzel_cycles = 150
    /\ n_bits = 8
    /\ RatEq(fm_result[7], Rat(18228, 1))
    /\ RatLT(Rat(RANGE_MAX, 1), fm_result[7])

---------------------------------------------------------------------------
(* Properties of create_sound, under SpecCS *)

\* C8: create_sound fails with an input error, and returns no waveform,
\* whenever the active-bit set has size 0 or more than 4; it returns a
\* waveform only for sizes 1 to 4
C8_SizeOutOfRangeRaises ==
    /\ pc # "create_sound" /\ (Len(p) = 0 \/ Len(p) > MAX_ACTIVE_BITS)
           => pc = "raised"
    /\ pc = "done" => Len(p) \in 1 .. MAX_ACTIVE_BITS

\* C9: create_sound fails with an input error for every noise outside
\* [0, 1], and never returns a waveform for such a value
C9_NoiseOutOfRangeRaises ==
    pc # "create_sound" /\ (noise < 0 \/ noise > 100) => pc = "raised"

---------------------------------------------------------------------------
(* Properties of test_markers against a stub device, under SpecTM *)

TwoLinesSecondCorrect(reply) == Len(reply) = 2 /\ reply[2] = "correct"

\* C1: if the device answers each tone with exactly two lines, the second
\* the expected line, whatever the first, test_markers returns a vector
\* whose every slot is 1
C1_ConformantDeviceAllSuccess ==
    pc = "done" /\ caller = "test_markers"
            /\ (\A i \in 1 .. Len(replies) : TwoLinesSecondCorrect(replies[i]))
        => \A i \in 1 .. Len(results) : results[i] = 1

\* C2: a trial counts as a success only if the device sent exactly two
\* lines for its tone and the line that arrived last is the expected one;
\* one line, or more than two, is a failure
C2_SuccessOnlyForTwoLinesLastCorrect ==
    caller = "test_markers" /\ pc \in {"trial", "poll", "done"} =>
        \A i \in 1 .. idx :
            counter[i] = 1 => TwoLinesSecondCorrect(replies[i])

\* C3: if the device answers every tone with two lines, the second the
\* expected one, except for one subset, for which it sends a single line or
\* two lines whose second is not the expected one, then the returned vector
\* has 0 at that subset's slot and 1 at every other slot
C3_OnlyTheOddSubsetFails ==
    pc = "done" /\ caller = "test_markers"
            /\ TwoLinesSecondCorrect(stub.usual) =>
        \A s \in 1 .. Len(replies) :
            (/\ \A i \in 1 .. Len(replies) :
                    i # s => replies[i] = stub.usual
             /\ \/ Len(replies[s]) = 1
                \/ Len(replies[s]) = 2 /\ replies[s][2] # "correct")
                => \A i \in 1 .. Len(results) :
                       results[i] = IF i = s THEN 0 ELSE 1

---------------------------------------------------------------------------
(* Properties of tune_parameters against a stub device, under Spec *)

\* the order of subsets: by size, then lexicographically by their indices
RECURSIVE LexLess(_, _)
LexLess(a, b) ==
    IF a = <<>> \/ b = <<>> THEN a = <<>> /\ b # <<>>
    ELSE IF Head(a) # Head(b) THEN Head(a) < Head(b)
    ELSE LexLess(Tail(a), Tail(b))

SubsetBefore(a, b) ==
    Len(a) < Len(b) \/ (Len(a) = Len(b) /\ LexLess(a, b))

\* the number of columns before the subset columns of the header
FixedColumns == 18

\* C5: for a universe of n increasing indices, test_markers plays every
\* non-empty subset exactly once, 2^n - 1 trials (15 for n = 4), by
\* increasing size and lexicographically within a size; slot i of the
\* returned vector belongs to the i-th subset played, and the i-th subset
\* column of the header written by tune_parameters is labelled by that
\* subset, no two columns sharing a label
C5_EnumerationOrder ==
    caller = "tune_parameters" /\ store.exists =>
        LET n == Len(bits)
            header == store.rows[1].fields
            last == Len(played)
        IN /\ Len(header) = FixedColumns + Pow2(n) - 1
           /\ pc = "case" =>
                  \A i, j \in FixedColumns + 1 .. Len(header) :
                      header[i] = header[j] => i = j
           /\ pc = "poll" =>
                  /\ last = idx + 1
                  /\ p = played[last]
                  /\ header[FixedColumns + last] = subset_label(p)
                  /\ \A i \in 1 .. last - 1 : SubsetBefore(played[i], p)
           /\ pc = "accumulate" =>
                  /\ last = Pow2(n) - 1
                  /\ Len(results) = last
                  /\ n = 4 => last = 15
                  /\ {Range(played[i]) : i \in 1 .. last}
                         = (SUBSET Range(bits)) \ {{}}
                  /\ \A i \in 1 .. last :
                         /\ \A k \in 1 .. Len(played[i]) - 1 :
                                played[i][k] < played[i][k + 1]
                         /\ \A j \in i + 1 .. last :
                                SubsetBefore(played[i], played[j])
                         /\ header[FixedColumns + i] = subset_label(played[i])

\* test_markers has returned from the 15 trials of a universe of 4 bits
C5_Witness ==
    /\ caller = "tune_parameters"
    /\ pc = "accumulate"
    /\ bits = <<0, 1, 2, 3>>
    /\ Len(played) = 15
    /\ played[5] = <<0, 1>>
    /\ store.rows[1].fields[FixedColumns + 5] = "(0 1)"

\* the stride of dimension i in the cartesian product: the product of the
\* sizes of the dimensions after it
RECURSIVE Stride(_)
Stride(i) ==
    IF i >= Len(tune_ranges) THEN 1
    ELSE Len(tune_ranges[i + 1]) * Stride(i + 1)

\* combination j (from 1) of the product, the last dimension fastest
ExpectedCase(j) ==
    [i \in 1 .. Len(tune_ranges) |->
        tune_ranges[i][(((j - 1) \div Stride(i)) % Len(tune_ranges[i])) + 1]]

\* C4: a call of tune_parameters over m combinations, n_repetitions >= 1,
\* that returns has appended exactly m data records, one per combination in
\* product order (one per combination completed, while it runs); each
\* carries the per-symbol accuracy vector of length 2^n - 1 whose i-th
\* entry is the successes of subset i over the repetitions divided by
\* n_repetitions, and an overall accuracy that is the mean of that vector
C4_RecordsPerCombination ==
    caller = "tune_parameters" /\ store.exists =>
        LET rows == Tail(store.rows)
            tests == Pow2(Len(bits)) - 1
        IN /\ Len(rows) = nr
           /\ pc = "done" => Len(rows) = Stride(0)
           /\ \A j \in 1 .. Len(rows) :
                  LET f == rows[j].fields
                      vector == SubSeq(f, FixedColumns + 1, Len(f))
                  IN /\ rows[j].kind = "data"
                     /\ \A i \in 1 .. 8 :
                            /\ RatEq(f[2 + i], Rat(ExpectedCase(j)[5][i], 1))
                            /\ RatEq(f[10 + i],
                                     Rat(ExpectedCase(j)[6][i], 100))
                     /\ Len(vector) = tests
                     /\ \A i \in 1 .. tests :
                            RatEq(vector[i], Rat(hist[j][i], n_repetitions))
                     /\ RatEq(f[1], Rat(Sum(hist[j]), n_repetitions * tests))
                     /\ RatEq(RatMulInt(tests, f[1]), RatSum(vector))

\* a sweep of four combinations and two repetitions has returned, and a
\* subset that succeeded in one repetition of two has accuracy 1/2
C4_Witness ==
    /\ caller = "tune_parameters"
    /\ pc = "done"
    /\ Len(cases) = 4
    /\ n_repetitions = 2
    /\ Len(store.rows) = 5
    /\ \E j \in 2 .. 5 :
           \E i \in FixedColumns + 1 .. Len(store.rows[j].fields) :
               store.rows[j].fields[i] = Rat(1, 2)

\* C10: a parameter or input error of a sweep is raised before any device
\* I/O: no frame written, no tone played, no reply read
C10_ErrorsBeforeDeviceIO ==
    caller = "tune_parameters" /\ pc = "raised" =>
        wire = <<>> /\ tones = 0 /\ reads = 0

\* a rational in [0, 1]
UnitInterval(x) == ~RatLT(x, Rat(0, 1)) /\ ~RatLT(Rat(1, 1), x)

\* C17: in every state of a sweep with n_repetitions >= 1, each slot of
\* the vector of a test_markers run is 0 or 1, the accumulated successes
\* of each subset do not exceed the repetitions completed so far, and every
\* per-symbol accuracy and the overall accuracy of a record is in [0, 1]
C17_AccuraciesWithinUnitInterval ==
    caller = "tune_parameters" =>
        /\ \A i \in 1 .. Len(counter) : counter[i] \in {0, 1}
        /\ \A i \in 1 .. Len(results) : results[i] \in {0, 1}
        /\ pc \in {"repetition", "tm_start", "trial", "poll", "accumulate"} =>
               /\ rep <= n_repetitions
               /\ \A i \in 1 .. Len(accuracy) : accuracy[i] \in 0 .. rep
        /\ \A j \in 2 .. Len(store.rows) :
               LET f == store.rows[j].fields
               IN /\ UnitInterval(f[1])
                  /\ \A i \in FixedColumns + 1 .. Len(f) : UnitInterval(f[i])

\* both repetitions of a combination are accumulated; one subset succeeded
\* in both and another in one of them
C17_Witness ==
    /\ caller = "tune_parameters"
    /\ pc = "repetition"
    /\ n_repetitions = 2
    /\ rep = 2
    /\ \E i, j \in 1 .. Len(accuracy) : accuracy[i] = 1 /\ accuracy[j] = 2

\* the kinds of the four frames of a combination, in the order they are due
FrameKinds == <<"frequencies", "scalars", "gains", "certainties">>

\* the tones played by the combinations completed so far
TonesOfCompleted == nr * n_repetitions * (Pow2(Len(bits)) - 1)

\* C14: for each combination, in product order, tune_parameters writes four
\* frames in the fixed order frequency table, the four scalars (mixer-marker
\* threshold, high threshold, band threshold, detector cycle count), gains,
\* certainties, with a delay after each; the four frames of a combination
\* are on the wire before its first tone is played, and none is written
\* from then until its record is appended
C14_FourFramesBeforeTones ==
    caller = "tune_parameters" =>
        /\ delays = Len(wire)
        /\ \A i \in 1 .. Len(wire) :
               LET j == ((i - 1) \div 4) + 1
                   k == ((i - 1) % 4) + 1
                   case == ExpectedCase(j)
               IN /\ wire[i].kind = FrameKinds[k]
                  /\ k = 1 => Len(wire[i].fields) = N_BITS_DEFAULT
                  /\ k = 2 => wire[i].fields
                                  = <<case[1], case[2], case[3], case[4]>>
                  /\ k = 3 => wire[i].fields = case[5]
                  /\ k = 4 => wire[i].fields = case[6]
        /\ pc \in {"tune_parameters", "case", "frequency_mapping", "done"}
               => Len(wire) = 4 * nr /\ tones = TonesOfCompleted
        /\ pc = "frames"
               => Len(wire) = 4 * nr + frame /\ tones = TonesOfCompleted
        /\ pc \in {"repetition", "tm_start", "trial", "poll", "accumulate"}
               => Len(wire) = 4 * (nr + 1)
        /\ tones > TonesOfCompleted => Len(wire) = 4 * (nr + 1)
        /\ Len(store.rows) = (IF store.exists THEN 1 ELSE 0) + nr

\* the four frames of a second combination are on the wire, with its cycle
\* count in the second of them, and its first tone is being answered
C14_Witness ==
    /\ caller = "tune_parameters"
    /\ pc = "poll"
    /\ nr = 1
    /\ Len(wire) = 8
    /\ wire[6].kind = "scalars"
    /\ wire[6].fields[4] = 3
    /\ wire[2].fields[4] = 2
    /\ tones = TonesOfCompleted + 1

\* the smallest multiple of the step of g cycles that is not below the
\* range
LeastMultiple(g) ==
    CHOOSE k \in 0 .. MaxMultiple :
        /\ k * SAMPLING_FREQUENCY >= RANGE_MIN * g
        /\ \A j \in 0 .. k - 1 : j * SAMPLING_FREQUENCY < RANGE_MIN * g

\* the frequency of bit b for g cycles
FrequencyOf(b, g) == Rat((LeastMultiple(g) + b) * SAMPLING_FREQUENCY, g)

\* C18: within one combination, the frequency table of frame 1, the cycle
\* count of frame 2 and the map that encodes every tone of the combination
\* derive from the same cycle count, that of the combination; the map is
\* the same from the frames to the last tone, and a tone is encoded with
\* the map of the combination the device was last programmed with
C18_OneCycleCountPerCombination ==
    caller = "tune_parameters"
            /\ pc \in {"frames", "repetition", "tm_start", "trial", "poll",
                       "accumulate"} =>
        LET g == ExpectedCase(nr + 1)[4]
            first == 4 * nr + 1
        IN /\ DOMAIN freq_map = 0 .. N_BITS_DEFAULT - 1
           /\ \A b \in 0 .. N_BITS_DEFAULT - 1 :
                  RatEq(freq_map[b], FrequencyOf(b, g))
           /\ Len(wire) >= first =>
                  \A b \in 0 .. N_BITS_DEFAULT - 1 :
                      RatEq(wire[first].fields[b + 1], FrequencyOf(b, g))
           /\ Len(wire) >= first + 1 => wire[first + 1].fields[4] = g
           /\ pc = "poll" =>
                  LET programmed == wire[Len(wire) - 2].fields[4]
                  IN /\ programmed = g
                     /\ Len(sound.sines) = Len(p)
                     /\ \A i \in 1 .. Len(p) :
                            RatEq(sound.sines[i].sine.freq,
                                  FrequencyOf(p[i], programmed))

\* a tone of a second combination, whose cycle count differs from the
\* first's, is encoded with the frequency of that combination's table
C18_Witness ==
    /\ caller = "tune_parameters"
    /\ pc = "poll"
    /\ nr = 1
    /\ cases[1][4] = 2
    /\ cases[2][4] = 3
    /\ p = <<0>>
    /\ RatEq(sound.sines[1].sine.freq, Rat(88200, 3))
    /\ RatEq(wire[5].fields[1], Rat(88200, 3))

---------------------------------------------------------------------------
(* Properties of the results file over calls of tune_parameters, under     *)
(* SpecCalls                                                               *)

\* the file is absent and empty, or one header row followed by data rows
StoreShape ==
    IF store.exists
    THEN /\ Len(store.rows) >= 1
         /\ store.rows[1].kind = "header"
         /\ \A i \in 2 .. Len(store.rows) : store.rows[i].kind = "data"
    ELSE store.rows = <<>>

\* a step leaves the file in existence and its rows as a prefix of the new
\* rows
AppendOnly ==
    /\ store.exists => store'.exists
    /\ Len(store.rows) <= Len(store'.rows)
    /\ SubSeq(store'.rows, 1, Len(store.rows)) = store.rows

\* C11: over any sequence of tune_parameters calls that starts with the
\* results file absent, the file is always exactly one header row, written
\* once as the first row, followed by data rows, and every write only
\* appends: the rows before a write are a prefix of the rows after it
C11_HeaderOnceAppendOnly == [](StoreShape) /\ [][AppendOnly]_vars

\* a second call has returned after appending to the rows of the first
C11_Witness ==
    /\ calls = 2
    /\ pc = "done"
    /\ Len(before) >= 2
    /\ Len(store.rows) > Len(before)
    /\ store.rows[Len(store.rows)].kind = "data"

---------------------------------------------------------------------------
(* Properties of sweeps in their environment, under SpecEnv *)

\* row is the complete record of combination j (from 1) of the running
\* call: the gains and certainties of that combination, the accuracy of
\* every subset and the overall accuracy
CompleteRecord(row, j) ==
    LET f == row.fields
        tests == Pow2(Len(bits)) - 1
    IN /\ row.kind = "data"
       /\ Len(f) = FixedColumns + tests
       /\ \A i \in 1 .. 8 :
              /\ RatEq(f[2 + i], Rat(ExpectedCase(j)[5][i], 1))
              /\ RatEq(f[10 + i], Rat(ExpectedCase(j)[6][i], 100))
       /\ \A i \in 1 .. tests :
              RatEq(f[FixedColumns + i], Rat(hist[j][i], n_repetitions))
       /\ RatEq(f[1], Rat(Sum(hist[j]), n_repetitions * tests))

\* C12: when a sweep is aborted while combination j (from 0) is processed,
\* the results file holds the header and the complete records of the
\* combinations 0 .. j - 1, and nothing of combination j
C12_AbortLosesOnlyInFlightRecord ==
    caller = "tune_parameters" /\ pc = "aborted" =>
        /\ store.exists
        /\ store.rows[1].kind = "header"
        /\ Len(store.rows) = 1 + nr
        /\ \A j \in 1 .. nr : CompleteRecord(store.rows[j + 1], j)

\* a sweep was aborted in its second combination, after that combination's
\* frames were written and a tone of it was played
C12_Witness ==
    /\ pc = "aborted"
    /\ nr = 1
    /\ Len(cases) = 2
    /\ Len(wire) = 8
    /\ played # <<>>
    /\ Len(store.rows) = 2

\* the device stalls in a line of its replies
StallingDevice == \E i \in 1 .. Len(stub.usual) : stub.usual[i] = "partial"

\* no call of collect_response has returned, and no record was appended
NothingCollected ==
    /\ idx = 0
    /\ results = <<>>
    /\ pc \notin {"accumulate", "repetition", "done"} \/ tones = 0
    /\ Len(store.rows) <= 1

\* C15 as stated: against a device that never stops emitting, or that
\* leaves bytes pending without completing a line, collect_response never
\* returns and the sweep appends no further record; for the endless device
\* this is said of a call that has already read one of its lines
C15_EndlessOrStalledDeviceBlocks ==
    /\ StallingDevice => NothingCollected
    /\ stub.endless /\ 0 \in heard => pc \in {"poll", "aborted"}

\* a step that leaves the polling loop, other than by an abort, finds no
\* byte pending
ReturnsOnlyWhenDrained ==
    pc = "poll" /\ pc' \notin {"poll", "aborted"} => ~in_waiting(inbuf)

\* C15, amended: collect_response has no read deadline; it returns only
\* when a poll finds no byte pending, which a device that goes on emitting
\* allows whenever it pauses; against a device that leaves a line without
\* its newline it never returns, and the sweep appends no further record
C15_ReturnsOnlyWhenDrained ==
    /\ [](StallingDevice => NothingCollected)
    /\ [][ReturnsOnlyWhenDrained]_vars

\* the collector has read the first line of a reply and waits on a second
\* line that has no newline
C15_Witness ==
    /\ pc = "poll"
    /\ StallingDevice
    /\ Len(response) = 1
    /\ in_waiting(inbuf)
    /\ ~line_ready(inbuf)

\* C16: with a device that emits its reply lines asynchronously, no reply
\* survives from one trial into the next: every line read in a trial was
\* emitted in reply to that trial's tone
C16_NoReplySurvivesATrial ==
    stub.async /\ pc = "poll" => \A t \in heard : t = tones

====
